---- MODULE Spec2Model ----
(***************************************************************************)
(* Model of the dsync model generator (src/code.rs): for one parsed table  *)
(* and its table options, generate_for_table builds the Read, Update and   *)
(* Create structs and the CRUD / pagination functions.  Generated text is  *)
(* kept structured: a type is a sequence of tokens, a struct is a record   *)
(* of its derive list and its field lines, a function is a record of its   *)
(* parameters, its filters and its statement.                              *)
(***************************************************************************)
EXTENDS Integers, Sequences, FiniteSets, TLC

VARIABLES table, opts, status, output, call, result

vars == <<table, opts, status, output, call, result>>

(***************************************************************************)
(* Bounds of the explored inputs.                                          *)
(***************************************************************************)
MaxCols == 3
MaxPk == 2
MaxPage == 2
MaxPageSize == 3
MaxTotal == 10

ColumnNames == {"post_id", "tag_id", "title", "body"}
KeyNames == {"post_id", "tag_id", "title"}
OptionNames == {"post_id", "tag_id", "ghost"}
ColumnType(n) ==
    CASE n = "post_id" -> <<"i32">>
      [] n = "tag_id" -> <<"i64">>
      [] n = "title" -> <<"String">>
      [] n = "body" -> <<"String">>

(***************************************************************************)
(* Generic helpers on sequences.                                           *)
(***************************************************************************)
Range(s) == {s[i] : i \in 1..Len(s)}

RECURSIVE MapSeq(_, _)
MapSeq(Op(_), s) == IF s = <<>> THEN <<>> ELSE <<Op(Head(s))>> \o MapSeq(Op, Tail(s))

DistinctSeqs(S, lo, hi) ==
    UNION {{s \in [1..n -> S] : \A i, j \in 1..n : i # j => s[i] # s[j]} : n \in lo..hi}

(***************************************************************************)
(* Inputs: ParsedTableMacro and TableOptions.                              *)
(***************************************************************************)
Columns ==
    {[name |-> n, ty |-> ColumnType(n), is_nullable |-> b] :
        n \in ColumnNames, b \in BOOLEAN}

ColumnLists ==
    UNION {{s \in [1..n -> Columns] : \A i, j \in 1..n : i # j => s[i].name # s[j].name} :
              n \in 1..MaxCols}

ForeignKeyLists ==
    {<<>>, <<<<"posts", "post_id">>>>}

Tables ==
    {[name |-> "post_tags", struct_name |-> "PostTag", columns |-> cs,
      primary_key_columns |-> pk, foreign_keys |-> fk] :
        cs \in ColumnLists, pk \in DistinctSeqs(KeyNames, 1, MaxPk), fk \in ForeignKeyLists}

TableOptions ==
    {[autogenerated_columns |-> a] : a \in SUBSET OptionNames}

(***************************************************************************)
(* StructType                                                              *)
(***************************************************************************)
StructType == {"Read", "Form", "Update", "Create"}

prefix(ty) ==
    CASE ty = "Read" -> ""
      [] ty = "Form" -> ""
      [] ty = "Update" -> "Update"
      [] ty = "Create" -> "Create"

suffix(ty) ==
    CASE ty = "Read" -> ""
      [] ty = "Form" -> "Form"
      [] ty = "Update" -> ""
      [] ty = "Create" -> ""

format(ty, name) == prefix(ty) \o name \o suffix(ty)

(***************************************************************************)
(* Types as token sequences: format!("Option<{}>", t)                      *)
(***************************************************************************)
OptionOf(t) == <<"Option<">> \o t \o <<">">>

RECURSIVE OptionLayers(_)
OptionLayers(t) ==
    IF t # <<>> /\ Head(t) = "Option<" THEN 1 + OptionLayers(Tail(t)) ELSE 0

(***************************************************************************)
(* ParsedTableMacro::primary_key_column_names: the declared primary-key    *)
(* columns as strings, in declaration order.                               *)
(***************************************************************************)
primary_key_column_names(t) == t.primary_key_columns

(***************************************************************************)
(* Struct::fields                                                          *)
(***************************************************************************)
is_autogenerated(o, c) == c.name \in o.autogenerated_columns

\* the filter closure: does column c belong to the struct of type ty
fields_filter_keeps_keys(ty, t, o, c) ==
    CASE ty = "Read" -> TRUE
      [] ty = "Form" -> TRUE
      [] ty = "Update" -> TRUE
      [] ty = "Create" -> ~is_autogenerated(o, c)

fields_filter_drops_keys_on_create(ty, t, o, c) ==
    CASE ty = "Read" -> TRUE
      [] ty = "Form" -> TRUE
      [] ty = "Update" -> ~(c.name \in Range(t.primary_key_columns))
      [] ty = "Create" -> ~is_autogenerated(o, c) /\ ~(c.name \in Range(t.primary_key_columns))

fields_filter(ty, t, o, c) ==
    CASE ty = "Read" -> TRUE
      [] ty = "Form" -> TRUE
      [] ty = "Update" -> LET is_pk == c.name \in Range(t.primary_key_columns) IN ~is_pk
      [] ty = "Create" -> ~is_autogenerated(o, c)

\* the map closure: the StructField of column c
fields_map(ty, t, o, c) ==
    LET name == c.name
        base_type == IF c.is_nullable THEN OptionOf(c.ty) ELSE c.ty
        is_pk == \E i \in 1..Len(t.primary_key_columns) : t.primary_key_columns[i] = name
        is_optional ==
            CASE ty = "Read" -> FALSE
              [] ty = "Form" -> FALSE
              [] ty = "Update" -> ~is_pk \/ (is_pk /\ is_autogenerated(o, c))
              [] ty = "Create" -> FALSE
    IN  [name |-> name, base_type |-> base_type, is_optional |-> is_optional]

RECURSIVE fields_of(_, _, _, _)
fields_of(ty, t, o, cs) ==
    IF cs = <<>> THEN <<>>
    ELSE (IF fields_filter(ty, t, o, Head(cs)) THEN <<fields_map(ty, t, o, Head(cs))>> ELSE <<>>)
         \o fields_of(ty, t, o, Tail(cs))

fields(ty, t, o) == fields_of(ty, t, o, t.columns)

(***************************************************************************)
(* Struct::attr_derive: the derive list of the struct                      *)
(***************************************************************************)
attr_derive_always_changeset(ty, t, o) ==
    <<"Debug", "Serialize", "Deserialize", "Clone", "Queryable", "Insertable", "AsChangeset">>
    \o (IF ty = "Read" /\ Len(t.foreign_keys) > 0 THEN <<"Identifiable">> ELSE <<>>)
    \o (IF ty = "Read" /\ Len(t.foreign_keys) > 0 THEN <<"Associations">> ELSE <<>>)

attr_derive(ty, t, o) ==
    LET fs == fields(ty, t, o)
        derive_aschangeset ==
            IF \A i \in 1..Len(fs) : fs[i].name \in Range(primary_key_column_names(t))
            THEN <<>> ELSE <<"AsChangeset">>
        derive_identifiable ==
            IF ty = "Read" /\ Len(t.foreign_keys) > 0 THEN <<"Identifiable">> ELSE <<>>
        derive_associations ==
            IF ty = "Read" /\ Len(t.foreign_keys) > 0 THEN <<"Associations">> ELSE <<>>
    IN  <<"Debug", "Serialize", "Deserialize", "Clone", "Queryable", "Insertable">>
        \o derive_aschangeset \o derive_identifiable \o derive_associations

(***************************************************************************)
(* Struct::render and Struct::new.  rendered_code is the empty sequence    *)
(* for the empty text, else one struct definition.                         *)
(***************************************************************************)
field_line(f) ==
    [field_name |-> f.name,
     field_type |-> IF f.is_optional THEN OptionOf(f.base_type) ELSE f.base_type]

render(ty, t, o) ==
    LET fs == fields(ty, t, o)
        struct_code ==
            [derive_attr |-> attr_derive(ty, t, o),
             table_name |-> t.name,
             primary_key |-> IF ty # "Read" THEN <<>> ELSE primary_key_column_names(t),
             struct_name |-> format(ty, t.struct_name),
             lines |-> MapSeq(field_line, fs)]
    IN  IF fs = <<>>
        THEN [has_fields |-> FALSE, rendered_code |-> <<>>]
        ELSE [has_fields |-> TRUE, rendered_code |-> <<struct_code>>]

Struct_new(ty, t, o) ==
    LET r == render(ty, t, o)
    IN  [identifier |-> format(ty, t.struct_name), ty |-> ty,
         rendered_code |-> r.rendered_code, has_fields |-> r.has_fields]

(***************************************************************************)
(* build_table_fns                                                         *)
(***************************************************************************)
\* columns.iter().find(|it| it.name == pk): the first column named pk, if any
RECURSIVE find(_, _)
find(cs, pk) ==
    IF cs = <<>> THEN <<>>
    ELSE IF Head(cs).name = pk THEN <<Head(cs)>> ELSE find(Tail(cs), pk)

\* a key with no column is dropped instead of being fatal
primary_column_name_and_type_skips_unknown(t) ==
    LET RECURSIVE known(_)
        known(pks) ==
            IF pks = <<>> THEN <<>>
            ELSE (IF find(t.columns, Head(pks)) = <<>> THEN <<>>
                  ELSE <<<<find(t.columns, Head(pks))[1].name, find(t.columns, Head(pks))[1].ty>>>>)
                 \o known(Tail(pks))
    IN  [panicked |-> FALSE, value |-> known(t.primary_key_columns)]

\* the keys are taken in column declaration order
primary_column_name_and_type_column_order(t) ==
    LET RECURSIVE keyed(_)
        keyed(cs) ==
            IF cs = <<>> THEN <<>>
            ELSE (IF Head(cs).name \in Range(t.primary_key_columns)
                  THEN <<<<Head(cs).name, Head(cs).ty>>>> ELSE <<>>)
                 \o keyed(Tail(cs))
    IN  IF \E i \in 1..Len(t.primary_key_columns) : find(t.columns, t.primary_key_columns[i]) = <<>>
        THEN [panicked |-> TRUE, value |-> <<>>]
        ELSE [panicked |-> FALSE, value |-> keyed(t.columns)]

\* .expect("Primary key column doesn't exist in table") panics on a missing column
primary_column_name_and_type(t) ==
    LET pair(pk) == LET col == find(t.columns, pk)[1] IN <<col.name, col.ty>>
    IN  IF \E i \in 1..Len(t.primary_key_columns) : find(t.columns, t.primary_key_columns[i]) = <<>>
        THEN [panicked |-> TRUE, value |-> <<>>]
        ELSE [panicked |-> FALSE, value |-> MapSeq(pair, t.primary_key_columns)]

id_param(name_and_type) ==
    [kind |-> "key", name |-> "param_" \o name_and_type[1], ty |-> name_and_type[2]]

item_id_params(pcnt) == MapSeq(id_param, pcnt)

id_filter(name_and_type) ==
    [column |-> name_and_type[1], eq |-> "param_" \o name_and_type[1]]

item_id_filters(pcnt) == MapSeq(id_filter, pcnt)

db_param == [kind |-> "db", name |-> "db", ty |-> <<"&mut Connection">>]

item_param(identifier) == [kind |-> "item", name |-> "item", ty |-> <<"&", identifier>>]

create_fn_by_update_struct(create_struct, update_struct) ==
    IF update_struct.has_fields
    THEN [name |-> "create", params |-> <<db_param, item_param(create_struct.identifier)>>,
          filters |-> <<>>, stmt |-> "insert_into.values(item)"]
    ELSE [name |-> "create", params |-> <<db_param>>,
          filters |-> <<>>, stmt |-> "insert_into.default_values()"]

create_fn(create_struct, update_struct) ==
    IF create_struct.has_fields
    THEN [name |-> "create", params |-> <<db_param, item_param(create_struct.identifier)>>,
          filters |-> <<>>, stmt |-> "insert_into.values(item)"]
    ELSE [name |-> "create", params |-> <<db_param>>,
          filters |-> <<>>, stmt |-> "insert_into.default_values()"]

read_fn(pcnt) ==
    [name |-> "read", params |-> <<db_param>> \o item_id_params(pcnt),
     filters |-> item_id_filters(pcnt), stmt |-> "first"]

paginate_fn ==
    [name |-> "paginate",
     params |-> <<db_param, [kind |-> "page", name |-> "page", ty |-> <<"i64">>],
                  [kind |-> "page_size", name |-> "page_size", ty |-> <<"i64">>]>>,
     filters |-> <<>>, stmt |-> "limit.offset.load"]

update_fn_always(pcnt, create_struct, update_struct) ==
    <<[name |-> "update",
       params |-> <<db_param>> \o item_id_params(pcnt) \o <<item_param(update_struct.identifier)>>,
       filters |-> item_id_filters(pcnt), stmt |-> "update.set(item)"]>>

update_fn(pcnt, create_struct, update_struct) ==
    IF update_struct.has_fields
    THEN <<[name |-> "update",
            params |-> <<db_param>> \o item_id_params(pcnt) \o <<item_param(update_struct.identifier)>>,
            filters |-> item_id_filters(pcnt), stmt |-> "update.set(item)"]>>
    ELSE <<>>

delete_fn(pcnt) ==
    [name |-> "delete", params |-> <<db_param>> \o item_id_params(pcnt),
     filters |-> item_id_filters(pcnt), stmt |-> "delete"]

build_table_fns(t, create_struct, update_struct) ==
    LET p == primary_column_name_and_type(t)
    IN  IF p.panicked
        THEN [panicked |-> TRUE, value |-> <<>>]
        ELSE [panicked |-> FALSE,
              value |-> <<create_fn(create_struct, update_struct), read_fn(p.value), paginate_fn>>
                        \o update_fn(p.value, create_struct, update_struct)
                        \o <<delete_fn(p.value)>>]

(***************************************************************************)
(* generate_for_table: the three structs, then the functions.  A panic in  *)
(* build_table_fns unwinds out of generate_for_table: nothing is returned. *)
(***************************************************************************)
NoCall == [page |-> 0, page_size |-> 0, total_items |-> 0]
NoResult == <<>>

generate_for_table ==
    /\ status = "ready"
    /\ LET read_struct == Struct_new("Read", table, opts)
           update_struct == Struct_new("Update", table, opts)
           create_struct == Struct_new("Create", table, opts)
           structs == read_struct.rendered_code \o create_struct.rendered_code
                      \o update_struct.rendered_code
           functions == build_table_fns(table, create_struct, update_struct)
       IN  IF functions.panicked
           THEN /\ status' = "panicked"
                /\ output' = <<>>
           ELSE /\ status' = "done"
                /\ output' = <<[structs |-> structs, functions |-> functions.value]>>
    /\ UNCHANGED <<table, opts, call, result>>

(***************************************************************************)
(* The generated paginate function, run with a page, a page size and the   *)
(* row count the database reports.  The values explored stay far inside    *)
(* i64, where the i64 operators are the integer ones; for a dividend >= 0  *)
(* and a divisor >= 1 Rust's / and % are \div and %.                       *)
(***************************************************************************)
paginate_floor(page, page_size, total_items) ==
    LET ps == IF page_size < 1 THEN 1 ELSE page_size
    IN  [limit |-> ps, offset |-> page * ps,
         total_items |-> total_items, page |-> page, page_size |-> ps,
         num_pages |-> total_items \div ps]

paginate(page, page_size, total_items) ==
    LET ps == IF page_size < 1 THEN 1 ELSE page_size
    IN  [limit |-> ps, offset |-> page * ps,
         total_items |-> total_items, page |-> page, page_size |-> ps,
         num_pages |-> (total_items \div ps) + (IF total_items % ps # 0 THEN 1 ELSE 0)]

Paginate ==
    /\ status = "done"
    /\ \E f \in Range(output[1].functions) : f.name = "paginate"
    /\ \E page \in 0..MaxPage, page_size \in (-MaxPageSize)..MaxPageSize, total_items \in 0..MaxTotal :
          /\ call' = [page |-> page, page_size |-> page_size, total_items |-> total_items]
          /\ result' = <<paginate(page, page_size, total_items)>>
    /\ UNCHANGED <<table, opts, status, output>>

(***************************************************************************)
(* Specifications                                                          *)
(***************************************************************************)
Init ==
    /\ table \in Tables
    /\ opts \in TableOptions
    /\ status = "ready"
    /\ output = <<>>
    /\ call = NoCall
    /\ result = NoResult

Next == generate_for_table

Spec == Init /\ [][Next]_vars

\* a posts table: id (autogenerated key), title, body (nullable)
PostsTable ==
    [name |-> "posts", struct_name |-> "Post",
     columns |-> <<[name |-> "id", ty |-> <<"i32">>, is_nullable |-> FALSE],
                   [name |-> "title", ty |-> <<"String">>, is_nullable |-> FALSE],
                   [name |-> "body", ty |-> <<"String">>, is_nullable |-> TRUE]>>,
     primary_key_columns |-> <<"id">>, foreign_keys |-> <<>>]

InitPaginate ==
    /\ table = PostsTable
    /\ opts = [autogenerated_columns |-> {"id"}]
    /\ status = "ready"
    /\ output = <<>>
    /\ call = NoCall
    /\ result = NoResult

NextPaginate == generate_for_table \/ Paginate

SpecPaginate == InitPaginate /\ [][NextPaginate]_vars

(***************************************************************************)
(* Vocabulary of the properties, stated on the inputs and on the output.   *)
(***************************************************************************)
PkNames == Range(table.primary_key_columns)

ColumnNameSeq == [i \in 1..Len(table.columns) |-> table.columns[i].name]

NotKey(n) == n \notin PkNames
NotAutogenerated(n) == n \notin opts.autogenerated_columns

\* the column names a variant is to select, in column declaration order
Selected(ty) ==
    CASE ty = "Read" -> ColumnNameSeq
      [] ty = "Update" -> SelectSeq(ColumnNameSeq, NotKey)
      [] ty = "Create" -> SelectSeq(ColumnNameSeq, NotAutogenerated)

Generated == status = "done"
Structs == output[1].structs
Functions == output[1].functions

StructsNamed(id) == {i \in 1..Len(Structs) : Structs[i].struct_name = id}
FnsNamed(n) == {i \in 1..Len(Functions) : Functions[i].name = n}

LineNames(st) == [i \in 1..Len(st.lines) |-> st.lines[i].field_name]

KeyParams(f) == SelectSeq(f.params, LAMBDA p : p.kind = "key")
HasItemParam(f) == \E i \in 1..Len(f.params) : f.params[i].kind = "item"

ColumnNamed(n) == CHOOSE c \in Range(table.columns) : c.name = n

IsJoinTable ==
    /\ table.primary_key_columns = <<"post_id", "tag_id">>
    /\ Len(table.columns) = 2
    /\ Range(ColumnNameSeq) = {"post_id", "tag_id"}

(***************************************************************************)
(* C1: the Update field list holds no primary-key column, every field in   *)
(* it is optional (is_optional = TRUE), and it is exactly the non-key      *)
(* columns in column declaration order; the emitted Update struct has      *)
(* these fields.                                                           *)
(***************************************************************************)
C1_UpdateSelection ==
    LET fs == fields("Update", table, opts)
    IN  /\ \A i \in 1..Len(fs) : fs[i].name \notin PkNames /\ fs[i].is_optional = TRUE
        /\ [i \in 1..Len(fs) |-> fs[i].name] = Selected("Update")
        /\ Generated =>
              \A i \in StructsNamed("UpdatePostTag") : LineNames(Structs[i]) = Selected("Update")

C1_Witness ==
    /\ Generated
    /\ Len(table.columns) = 3
    /\ table.columns[2].name \in PkNames
    /\ Len(Selected("Update")) = 2
    /\ StructsNamed("UpdatePostTag") # {}

(***************************************************************************)
(* C2: the Create field list is exactly the columns, in declaration order, *)
(* whose name is not autogenerated: key columns stay, and autogenerated    *)
(* names that match no column change nothing.                              *)
(***************************************************************************)
C2_CreateSelection ==
    LET fs == fields("Create", table, opts)
    IN  /\ [i \in 1..Len(fs) |-> fs[i].name] = Selected("Create")
        /\ Generated =>
              \A i \in StructsNamed("CreatePostTag") : LineNames(Structs[i]) = Selected("Create")

C2_Witness ==
    /\ Generated
    /\ "ghost" \in opts.autogenerated_columns
    /\ \E i \in 1..Len(table.columns) : table.columns[i].name \in opts.autogenerated_columns
    /\ \E i \in StructsNamed("CreatePostTag") :
          \E j \in 1..Len(Structs[i].lines) : Structs[i].lines[j].field_name \in PkNames

(***************************************************************************)
(* C3: in the emitted Update struct, the type of a nullable non-key column *)
(* has exactly one layer of Option.                                        *)
(***************************************************************************)
C3_SingleOptionLayer ==
    Generated =>
        \A i \in StructsNamed("UpdatePostTag") :
            \A j \in 1..Len(Structs[i].lines) :
                ColumnNamed(Structs[i].lines[j].field_name).is_nullable
                    => OptionLayers(Structs[i].lines[j].field_type) = 1

(***************************************************************************)
(* C4: the functions hold an update function exactly when the table has a  *)
(* non-key column (the Update field list is not empty); create, read,      *)
(* paginate and delete are emitted either way, once each.                  *)
(***************************************************************************)
C4_UpdateEmitted ==
    Generated =>
        /\ (FnsNamed("update") # {}) <=> (Selected("Update") # <<>>)
        /\ Cardinality(FnsNamed("update")) <= 1
        /\ \A n \in {"create", "read", "paginate", "delete"} : Cardinality(FnsNamed(n)) = 1

C4_Witness ==
    /\ Generated
    /\ Selected("Update") = <<>>
    /\ FnsNamed("update") = {}
    /\ FnsNamed("delete") # {}

(***************************************************************************)
(* C5: exactly one create function is emitted; it takes a Create payload   *)
(* and inserts its values exactly when the Create field list is not empty, *)
(* and else takes no payload and inserts default values.                   *)
(***************************************************************************)
C5_CreateForm ==
    Generated =>
        /\ Cardinality(FnsNamed("create")) = 1
        /\ \A i \in FnsNamed("create") :
              IF Selected("Create") # <<>>
              THEN /\ KeyParams(Functions[i]) = <<>>
                   /\ \E j \in 1..Len(Functions[i].params) :
                         Functions[i].params[j] =
                            [kind |-> "item", name |-> "item", ty |-> <<"&", "CreatePostTag">>]
                   /\ Functions[i].stmt = "insert_into.values(item)"
              ELSE /\ Functions[i].params = <<db_param>>
                   /\ Functions[i].stmt = "insert_into.default_values()"

C5_Witness ==
    /\ Generated
    /\ Selected("Create") = <<>>
    /\ \E i \in FnsNamed("create") : ~HasItemParam(Functions[i])

(***************************************************************************)
(* C6: for Read, Create and Update, the derive list holds AsChangeset      *)
(* unless every selected field is a primary-key column name (also when no  *)
(* field is selected); every emitted struct carries that derive list.      *)
(***************************************************************************)
C6_AsChangeset ==
    /\ \A ty \in {"Read", "Create", "Update"} :
          ("AsChangeset" \in Range(attr_derive(ty, table, opts)))
              <=> ~(\A i \in 1..Len(Selected(ty)) : Selected(ty)[i] \in PkNames)
    /\ Generated =>
          \A i \in 1..Len(Structs) :
              ("AsChangeset" \in Range(Structs[i].derive_attr))
                  <=> (\E j \in 1..Len(Structs[i].lines) : Structs[i].lines[j].field_name \notin PkNames)

C6_Witness ==
    /\ Generated
    /\ \E i \in StructsNamed("PostTag") : "AsChangeset" \notin Range(Structs[i].derive_attr)
    /\ \E i \in StructsNamed("CreatePostTag") : "AsChangeset" \notin Range(Structs[i].derive_attr)
    /\ StructsNamed("UpdatePostTag") = {}

(***************************************************************************)
(* C7: with a composite primary key, read, update (when emitted) and       *)
(* delete each take one parameter per key column, typed as the column, and *)
(* filter on every key column; parameters and filters follow the declared  *)
(* primary-key order.                                                      *)
(***************************************************************************)
C7_CompositeKey ==
    (Generated /\ Len(table.primary_key_columns) > 1) =>
        \A i \in FnsNamed("read") \cup FnsNamed("update") \cup FnsNamed("delete") :
            /\ KeyParams(Functions[i]) =
                  [k \in 1..Len(table.primary_key_columns) |->
                      [kind |-> "key", name |-> "param_" \o table.primary_key_columns[k],
                       ty |-> ColumnNamed(table.primary_key_columns[k]).ty]]
            /\ Functions[i].filters =
                  [k \in 1..Len(table.primary_key_columns) |->
                      [column |-> table.primary_key_columns[k],
                       eq |-> "param_" \o table.primary_key_columns[k]]]

C7_Witness ==
    /\ Generated
    /\ table.primary_key_columns = <<"tag_id", "post_id">>
    /\ ColumnNameSeq = <<"post_id", "title", "tag_id">>
    /\ \E i \in FnsNamed("update") :
          Functions[i].filters = <<[column |-> "tag_id", eq |-> "param_tag_id"],
                                   [column |-> "post_id", eq |-> "param_post_id"]>>

(***************************************************************************)
(* C8 as stated: for the join table (post_id, tag_id) with no other        *)
(* column, the Create struct has no fields and create takes no payload and *)
(* inserts default values; the Update struct has no fields and no update   *)
(* is emitted; read and delete take the parameters (post_id, tag_id).      *)
(***************************************************************************)
JoinTableKeyed ==
    /\ StructsNamed("UpdatePostTag") = {}
    /\ FnsNamed("update") = {}
    /\ \A i \in FnsNamed("read") \cup FnsNamed("delete") :
          [k \in 1..Len(KeyParams(Functions[i])) |-> KeyParams(Functions[i])[k].name]
              = <<"param_post_id", "param_tag_id">>

C8_JoinTableAsStated ==
    (Generated /\ IsJoinTable) =>
        /\ StructsNamed("CreatePostTag") = {}
        /\ \A i \in FnsNamed("create") :
              ~HasItemParam(Functions[i]) /\ Functions[i].stmt = "insert_into.default_values()"
        /\ JoinTableKeyed

(***************************************************************************)
(* C8 amended: for that join table the Create struct holds the key columns *)
(* that are not autogenerated; create takes a payload and inserts its      *)
(* values unless both key columns are autogenerated, and only then takes   *)
(* no payload and inserts default values.  The Update struct has no fields *)
(* and no update is emitted; read and delete take (post_id, tag_id).       *)
(***************************************************************************)
C8_JoinTable ==
    (Generated /\ IsJoinTable) =>
        /\ IF {"post_id", "tag_id"} \subseteq opts.autogenerated_columns
           THEN /\ StructsNamed("CreatePostTag") = {}
                /\ \A i \in FnsNamed("create") :
                      ~HasItemParam(Functions[i])
                      /\ Functions[i].stmt = "insert_into.default_values()"
           ELSE /\ \E i \in StructsNamed("CreatePostTag") :
                      LineNames(Structs[i]) = SelectSeq(ColumnNameSeq, NotAutogenerated)
                /\ \A i \in FnsNamed("create") :
                      HasItemParam(Functions[i])
                      /\ Functions[i].stmt = "insert_into.values(item)"
        /\ JoinTableKeyed

C8_Witness ==
    /\ Generated
    /\ IsJoinTable
    /\ opts.autogenerated_columns = {}
    /\ \E i \in StructsNamed("CreatePostTag") : Len(Structs[i].lines) = 2
    /\ \E i \in FnsNamed("create") : HasItemParam(Functions[i])
    /\ FnsNamed("update") = {}

(***************************************************************************)
(* C9: paginate uses the page size max(1, page_size) as the limit, the     *)
(* offset page * that size, and num_pages = ceil(total_items / that size): *)
(* 0 pages for 0 items, 4 pages for 10 items by 3.                         *)
(***************************************************************************)
C9_Paginate ==
    \A i \in 1..Len(result) :
        LET r == result[i]
            effective == IF call.page_size > 1 THEN call.page_size ELSE 1
        IN  /\ r.page_size = effective
            /\ r.limit = effective
            /\ r.offset = call.page * effective
            /\ r.num_pages >= 0
            /\ r.num_pages * effective >= call.total_items
            /\ (r.num_pages - 1) * effective < call.total_items
            /\ call.total_items = 0 => r.num_pages = 0
            /\ (call.total_items = 10 /\ call.page_size = 3) => r.num_pages = 4

C9_Witness ==
    /\ result # <<>>
    /\ call = [page |-> 2, page_size |-> 3, total_items |-> 10]
    /\ result[1].num_pages = 4
    /\ result[1].offset = 6

(***************************************************************************)
(* C10: when a declared primary-key column is not among the columns,       *)
(* generate_for_table fails and produces no output.                        *)
(***************************************************************************)
C10_MissingKeyFatal ==
    (status # "ready" /\ \E k \in PkNames : k \notin Range(ColumnNameSeq)) =>
        status = "panicked" /\ output = <<>>

C10_Witness ==
    /\ status = "panicked"
    /\ output = <<>>
    /\ Len(table.primary_key_columns) = 2
    /\ table.primary_key_columns[1] \in Range(ColumnNameSeq)
    /\ table.primary_key_columns[2] \notin Range(ColumnNameSeq)

====
